---- MODULE Spec2Model ----
(***************************************************************************)
(* The behaviour-injection pipeline of src/config/agent.py: the audio      *)
(* collector with its two embedded modifiers, the speech-parameter         *)
(* modulator, the transcript emitter and the transcript context fixup,     *)
(* all working on one shared conversation context, and beside them the     *)
(* tasks that run on timers: the modulator's resets and the proactive      *)
(* speech loop.                                                            *)
(*                                                                         *)
(* Numbers: durations are kept exact as numerators over the denominator    *)
(* 16 * sample_rate (the source computes them in floating point); speech   *)
(* parameters are kept in hundredths (1.5 is 150), probabilities in        *)
(* hundredths, and the clock in whole seconds.  Only SpecModulator and     *)
(* SpecProactive let the clock run; elsewhere a sleep may end at any step. *)
(*                                                                         *)
(* Not modelled: last_interaction_time, last_speech_end_time, current_time *)
(* and emotional_state of RealisticHumanBehaviorModifier, which the source *)
(* writes and never reads.                                                 *)
(***************************************************************************)
EXTENDS Integers, Sequences, FiniteSets, TLC

(***************************************************************************)
(* Bounds of the model.                                                    *)
(***************************************************************************)
\* audio chunks the transport delivers in one run
MaxChunks == 3
\* turns the shared context may hold
MaxTurns == 2
\* armed reversion timers that may be pending at once
MaxTimers == 2
\* turns of a context handed to the fixup in SpecFixup
MaxCtx == 3
\* wake-ups of the proactive speech task in one run
MaxProactive == 2
\* text frames the transcript emitter receives between two markers
MaxTextFrames == 3
\* seconds the clock of the timed specifications runs
MaxClock == 5

(***************************************************************************)
(* Program constants.                                                      *)
(***************************************************************************)
\* frame_duration divides len(frame.audio) by 16
AudioDivisor == 16
\* the sample rate of every chunk of the model (16 kHz input audio)
SampleRate == 16000
\* _start_secs = 0.2, kept as the fraction StartSecsNum / StartSecsDen
StartSecsNum == 1
StartSecsDen == 5
\* random.randint(1, 100)
RandIntMax == 100
\* _reset_settings_after_delay(3.0), in seconds
ResetDelay == 3

VARIABLES
    config,            \* the agent's configuration (immutable after Init)
    audio_frames,      \* UserAudioCollector._audio_frames
    user_speaking,     \* UserAudioCollector._user_speaking
    collector_pc,      \* "idle", or "sleeping" inside asyncio.sleep of line 191
    chunks_received,   \* audio chunks the collector has received so far
    messages,          \* context.messages, the shared conversation context
    submissions,       \* context frames pushed to the user aggregator so far
    pending,           \* positions of the submitted audio turns whose transcript is in flight
    replies_due,       \* submissions the conversation model has not answered yet
    joined,            \* on_first_participant_joined has run
    unanswered,        \* UserStartedSpeaking frames with no interrupt directive yet
    tts_settings,      \* tts_service._settings
    default_settings,  \* VolumeModulator.default_settings
    timers,            \* pending _reset_settings_after_delay tasks: the time each was created
    tts_written,       \* who wrote tts_settings last, when apply ran last, and
                       \* whether it ran over a set_speech value (history)
    transcript,        \* TranscriptionContextFixup._transcript
    current_emotion,   \* EmotionalResponseModifier.current_emotion
    aggregation,       \* InputTranscriptionFrameEmitter._aggregation
    text_frames,       \* the texts of the TextFrames since the last marker (history)
    utterances,        \* the chunks of the utterance in progress and of the ignored ones (history)
    now,               \* the clock, in seconds
    proactive_speech,  \* the random_proactive_speech task
    session,           \* "running", or "ending" once teardown has begun
    fixup_call,        \* the fixup's process_frame suspended at its first await
    last               \* what the last handler did (history, read by the claims)

vars == <<config, audio_frames, user_speaking, collector_pc, chunks_received,
          messages, submissions, pending, replies_due, joined, unanswered, tts_settings,
          default_settings, timers, tts_written, transcript, current_emotion,
          aggregation, text_frames, utterances, now, proactive_speech, session,
          fixup_call, last>>

collectorVars == <<audio_frames, user_speaking, collector_pc, chunks_received, utterances>>
ttsVars == <<tts_settings, default_settings, timers, tts_written>>
emitterVars == <<aggregation, text_frames>>
\* the clock, the proactive task and the session's state
backgroundVars == <<now, proactive_speech, session>>

(***************************************************************************)
(* Frames.  Every frame is a record of one shape; the fields a frame type  *)
(* does not carry hold the defaults of NoChunk, "" and "none".             *)
(***************************************************************************)
NoChunk == [audio |-> 0, num_channels |-> 0, sample_rate |-> 0, seq |-> 0]

Frame(type, emotion, text, chunk) ==
    [type |-> type, emotion |-> emotion, text |-> text, chunk |-> chunk]

UserStartedSpeakingFrame == Frame("UserStartedSpeakingFrame", "none", "", NoChunk)
UserStoppedSpeakingFrame == Frame("UserStoppedSpeakingFrame", "none", "", NoChunk)
TranscriptionFrame == Frame("TranscriptionFrame", "none", "", NoChunk)
MetricsFrame == Frame("MetricsFrame", "none", "", NoChunk)
InterruptFrame == Frame("InterruptFrame", "none", "", NoChunk)
TalkOutOfTurnFrame == Frame("TalkOutOfTurnFrame", "none", "", NoChunk)
EmotionalReactionFrame(emotion) == Frame("EmotionalReactionFrame", emotion, "", NoChunk)
LLMDemoTranscriptionFrame(text) == Frame("LLMDemoTranscriptionFrame", "none", text, NoChunk)
InputAudioRawFrame(chunk) == Frame("InputAudioRawFrame", "none", "", chunk)
TextFrame(text) == Frame("TextFrame", "none", text, NoChunk)
LLMFullResponseEndFrame == Frame("LLMFullResponseEndFrame", "none", "", NoChunk)
NoFrame == Frame("none", "none", "", NoChunk)

\* len(frame.audio) of the chunks the transport delivers: an empty chunk and
\* chunks of 0.05 s and 0.1 s by the collector's own measure
AudioLens == {0, 12800, 25600}

\* the seq-th chunk received, of n bytes
Chunk(n, seq) == [audio |-> n, num_channels |-> 1, sample_rate |-> SampleRate, seq |-> seq]

(***************************************************************************)
(* Configuration.                                                          *)
(***************************************************************************)
DEFAULT_CONFIG ==
    [listening |-> 6, emotionality |-> 6, talkativeness |-> 7,
     interrupt_probability |-> 25, ignore_probability |-> 15,
     talk_out_of_turn_probability |-> 20, emotional_reaction_probability |-> 30,
     proactive_speech_min_interval |-> 30, proactive_speech_max_interval |-> 90,
     proactive_speech_probability |-> 50]

\* the configurations of the model: the defaults, the listening trait at its
\* extremes, and the interrupt probability at 100
Configs ==
    { [DEFAULT_CONFIG EXCEPT !.listening = l] : l \in {0, 6, 10} }
    \cup { [DEFAULT_CONFIG EXCEPT !.interrupt_probability = RandIntMax] }

\* random.randint(1, 100) where it is compared with the threshold p: the draws
\* at both ends of the range and on both sides of the threshold
RandInt(p) == {1, RandIntMax} \cup ({p, p + 1} \cap (1 .. RandIntMax))

\* the chunks heard: those of the utterance in progress and those of the
\* utterances that took the Ignore path, as far as they are still buffered
\* (by number); every chunk received, in arrival order; the buffer as the
\* last UserStartedSpeakingFrame found it, and the chunks pushed since while
\* the user was speaking.  The record is kept where tracked is set, and left
\* alone elsewhere.
NoUtterances ==
    [tracked |-> FALSE, current |-> {}, ignored |-> {}, received |-> <<>>,
     retained |-> <<>>, pushed |-> <<>>]
TrackedUtterances == [NoUtterances EXCEPT !.tracked = TRUE]

\* the same after the collector has handled the frame on the path, the buffer
\* then being frames
UtterancesAfter(u, frame, speaking, path, frames) ==
    LET buffered == {frames[i].seq : i \in 1 .. Len(frames)}
    IN  CASE ~u.tracked -> u
          [] u.tracked /\ frame.type = "UserStartedSpeakingFrame" ->
                 [u EXCEPT !.current = {}, !.ignored = @ \cap buffered,
                           !.retained = frames, !.pushed = <<>>]
          [] u.tracked /\ frame.type = "InputAudioRawFrame" ->
                 [u EXCEPT !.current = IF speaking THEN @ \cup {frame.chunk.seq} ELSE @,
                           !.ignored = @ \cap buffered,
                           !.received = Append(@, frame.chunk),
                           !.pushed = IF speaking THEN Append(@, frame.chunk) ELSE @]
          [] u.tracked /\ frame.type = "UserStoppedSpeakingFrame" ->
                 [u EXCEPT !.current = {},
                           !.ignored = IF path = "Ignore"
                                       THEN (@ \cup u.current) \cap buffered
                                       ELSE @ \cap buffered]
          [] OTHER -> u

(***************************************************************************)
(* The shared context.  A turn is either a glm.Content (repr "Content":    *)
(* its role and its last part, which holds inline audio or text) or the    *)
(* plain dict the emotional modifier appends (repr "dict").                *)
(***************************************************************************)
Turn(role, repr, inline_data, audio, text) ==
    [role |-> role, repr |-> repr, inline_data |-> inline_data,
     audio |-> audio, text |-> text]

ContentText(role, text) == Turn(role, "Content", FALSE, <<>>, text)
DictMessage(role, content) == Turn(role, "dict", FALSE, <<>>, content)

initial_message ==
    ContentText("user", "Hi there, I'm talking to Marcus. How are you today?")

\* GoogleLLMContext.add_audio_frames_message: one user turn whose last part is
\* the audio of the given frames
add_audio_frames_message(msgs, frames) ==
    Append(msgs, Turn("user", "Content", TRUE, frames, ""))

\* the two system messages of the configuration, by their keys: the texts
\* themselves are not read by any decision
conversation_system_message == "conversation_system_message"
transcriber_system_message == "transcriber_system_message"

(***************************************************************************)
(* What the last handler did; for a context frame pushed, the turns and    *)
(* the system message of its context.                                      *)
(***************************************************************************)
NoLast ==
    [proc |-> "none", frame |-> NoFrame, emitted |-> NoFrame, path |-> "none",
     truncate_point |-> 0, directives |-> 0, appended |-> 0, submitted |-> 0,
     forwarded |-> FALSE, raised |-> FALSE, context |-> <<>>,
     system_message |-> ""]

\* the settings as the constructor left them: nothing applied yet
NoWrite == [by |-> "init", applied_at |-> -1, over_set_speech |-> FALSE]

\* no process_frame of the fixup is suspended; once one has been, its frame
\* and the length of the context at its entry stay on record (history)
NoCall == [pc |-> "idle", frame |-> NoFrame, entry_len |-> 0]

\* random_proactive_speech before asyncio.create_task has started it
NotStarted == [pc |-> "none", slept_from |-> 0, wake_at |-> 0, turns |-> 0]

Min(a, b) == IF a <= b THEN a ELSE b
Max(a, b) == IF a >= b THEN a ELSE b

(***************************************************************************)
(* RealisticHumanBehaviorModifier.process_frame: the frame it pushes to    *)
(* its own output, given the draw r of random.randint(1, 100) and the      *)
(* emotion random.choice picks.  The modifier is built inside the          *)
(* collector and linked to no other processor, and the collector hands     *)
(* the emotional modifier the frame it received itself: what is pushed     *)
(* here reaches no processor.                                              *)
(***************************************************************************)
BaseEmotions == {"excited", "frustrated", "curious", "amused", "skeptical"}
StrongEmotions == {"angry", "overjoyed", "disappointed", "surprised"}

\* with a defect: the strong emotions are candidates whatever the trait
CandidateEmotions_Always(emotionality) == BaseEmotions \cup StrongEmotions

\* emotion_intensity = min(9, emotionality) / 10.0 > 0.7
CandidateEmotions(emotionality) ==
    IF Min(9, emotionality) * 10 > 70 THEN BaseEmotions \cup StrongEmotions
    ELSE BaseEmotions

BehaviorEmits(cfg, frame, r, emotion) ==
    CASE frame.type = "UserStartedSpeakingFrame"
             /\ r <= cfg.interrupt_probability -> InterruptFrame
      [] frame.type = "UserStoppedSpeakingFrame"
             /\ r <= cfg.talk_out_of_turn_probability -> TalkOutOfTurnFrame
      [] frame.type = "LLMDemoTranscriptionFrame"
             /\ r <= cfg.emotional_reaction_probability -> EmotionalReactionFrame(emotion)
      [] OTHER -> NoFrame

(***************************************************************************)
(* EmotionalResponseModifier.process_frame: the context after the frame.   *)
(***************************************************************************)
emotion_prompts(emotion) ==
    CASE emotion = "angry" -> "The user just said something that frustrates you. Respond with irritation, using stronger language and ALL CAPS for emphasis."
      [] emotion = "excited" -> "The user said something that excites you! Respond enthusiastically with exclamation points and expressive language."
      [] emotion = "frustrated" -> "You're becoming a bit frustrated with this conversation. Respond with mild impatience."
      [] emotion = "curious" -> "You're very curious about what the user just said. Ask follow-up questions and show genuine interest."
      [] emotion = "amused" -> "You find what the user said quite funny. Respond with humor and lightheartedness."
      [] emotion = "skeptical" -> "You're skeptical about what the user just mentioned. Respond with mild doubt and questioning."
      [] emotion = "overjoyed" -> "You're absolutely THRILLED by what the user said! Respond with extreme enthusiasm and excitement!"
      [] emotion = "disappointed" -> "You're a bit disappointed by what you heard. Express mild disappointment before continuing."
      [] emotion = "surprised" -> "You're genuinely surprised by what the user said. Express your astonishment before responding normally."
      [] OTHER -> "Respond naturally to the user."

interrupt_message ==
    DictMessage("system", "INTERRUPT the user mid-thought. Cut in with your own thought or question as if you couldn't wait for them to finish.")

talk_message ==
    DictMessage("system", "The conversation has had a brief pause. Proactively start a new topic or ask a question to keep the conversation going.")

\* with a defect: a label emotion_prompts does not know appends nothing
EmotionalModifierAppends_KnownOnly(msgs, frame) ==
    CASE frame.type = "EmotionalReactionFrame"
             /\ frame.emotion \in BaseEmotions \cup StrongEmotions ->
             Append(msgs, DictMessage("system", emotion_prompts(frame.emotion)))
      [] frame.type = "InterruptFrame" -> Append(msgs, interrupt_message)
      [] frame.type = "TalkOutOfTurnFrame" -> Append(msgs, talk_message)
      [] OTHER -> msgs

\* with a defect: the directive is put in front of the turns
EmotionalModifierAppends_InFront(msgs, frame) ==
    CASE frame.type = "EmotionalReactionFrame" ->
             <<DictMessage("system", emotion_prompts(frame.emotion))>> \o msgs
      [] frame.type = "InterruptFrame" -> <<interrupt_message>> \o msgs
      [] frame.type = "TalkOutOfTurnFrame" -> <<talk_message>> \o msgs
      [] OTHER -> msgs

EmotionalModifierAppends(msgs, frame) ==
    CASE frame.type = "EmotionalReactionFrame" ->
             Append(msgs, DictMessage("system", emotion_prompts(frame.emotion)))
      [] frame.type = "InterruptFrame" -> Append(msgs, interrupt_message)
      [] frame.type = "TalkOutOfTurnFrame" -> Append(msgs, talk_message)
      [] OTHER -> msgs

(***************************************************************************)
(* UserAudioCollector.process_frame.                                       *)
(***************************************************************************)
\* frame_duration = len(frame.audio) / 16 * frame.num_channels / frame.sample_rate,
\* as the numerator over FrameDurationDen(frame)
FrameDurationNum(chunk) == chunk.audio * chunk.num_channels
FrameDurationDen(chunk) == AudioDivisor * chunk.sample_rate

\* buffer_duration > self._start_secs, for a buffer_duration over the
\* denominator of the chunk just pushed
ExceedsStartSecs(buffer_duration, chunk) ==
    buffer_duration * StartSecsDen > StartSecsNum * FrameDurationDen(chunk)

\* with a defect: the chunk just pushed is the one dropped
RingBufferLoop_PopsNewest(frames, buffer_duration, chunk) ==
    IF ExceedsStartSecs(buffer_duration, chunk)
    THEN SubSeq(frames, 1, Len(frames) - 1)
    ELSE frames

\* while buffer_duration > self._start_secs: pop(0); buffer_duration -= frame_duration
RECURSIVE RingBufferLoop(_, _, _)
RingBufferLoop(frames, buffer_duration, chunk) ==
    IF ExceedsStartSecs(buffer_duration, chunk)
    THEN RingBufferLoop(Tail(frames), buffer_duration - FrameDurationNum(chunk), chunk)
    ELSE frames

\* with a defect: the oldest chunks are dropped while the user is speaking too
PushAudio_RingAlways(frames, speaking, chunk) ==
    RingBufferLoop(Append(frames, chunk),
                   FrameDurationNum(chunk) * (Len(frames) + 1), chunk)

\* the buffer after an InputAudioRawFrame
PushAudio(frames, speaking, chunk) ==
    IF speaking THEN Append(frames, chunk)
    ELSE RingBufferLoop(Append(frames, chunk),
                        FrameDurationNum(chunk) * (Len(frames) + 1), chunk)

\* with a defect: behaviors.ignore_probability decides between Ignore and
\* Partial
ListenPath_ByIgnoreProbability(cfg, r, ignore) ==
    IF r <= cfg.listening * 10 THEN "Full"
    ELSE IF r <= cfg.listening * 10 + cfg.ignore_probability THEN "Ignore"
    ELSE "Partial"

\* the listening decision of a UserStoppedSpeakingFrame under the
\* configuration cfg: r is random.randint(1, 100), ignore is
\* random.random() < 0.5
ListenPath(cfg, r, ignore) ==
    IF r <= cfg.listening * 10 THEN "Full"
    ELSE IF ignore THEN "Ignore" ELSE "Partial"

\* with a defect: random.randint(1, len(self._audio_frames))
TruncatePoints_UpToLen(frames) == 1 .. Max(1, Len(frames))

\* random.randint(1, max(1, len(self._audio_frames) - 1))
TruncatePoints(frames) == 1 .. Max(1, Len(frames) - 1)

\* self._audio_frames[:truncate_point]
Slice(frames, truncate_point) == SubSeq(frames, 1, Min(truncate_point, Len(frames)))

\* with a defect: the Partial path forwards the buffer unsliced
ForwardedAudio_Unsliced(frames, path, truncate_point) == frames

\* the frames add_audio_frames_message is given on each path
ForwardedAudio(frames, path, truncate_point) ==
    IF path = "Full" THEN frames ELSE Slice(frames, truncate_point)

\* lines 297-346: the emotional modifier, then the collector's own handling,
\* under the configuration cfg.  emitted is what the behaviour modifier
\* pushed before.
CollectorFinish(cfg, frame, emitted, r_listen, ignore, truncate_point) ==
    LET msgs1 == EmotionalModifierAppends(messages, frame)
        stopped == frame.type = "UserStoppedSpeakingFrame"
        path == IF stopped THEN ListenPath(cfg, r_listen, ignore) ELSE "none"
        submits == path \in {"Full", "Partial"}
        msgs2 == IF submits
                 THEN add_audio_frames_message(
                          msgs1, ForwardedAudio(audio_frames, path, truncate_point))
                 ELSE msgs1
    IN  /\ Len(msgs2) <= MaxTurns
        /\ messages' = msgs2
        /\ current_emotion' = "neutral"
        /\ submissions' = IF submits THEN submissions + 1 ELSE submissions
        /\ pending' = IF submits THEN Append(pending, Len(msgs2)) ELSE pending
        /\ replies_due' = IF submits THEN replies_due + 1 ELSE replies_due
        /\ user_speaking' =
               CASE frame.type = "UserStartedSpeakingFrame" -> TRUE
                 [] stopped -> FALSE
                 [] OTHER -> user_speaking
        /\ audio_frames' =
               IF frame.type = "InputAudioRawFrame"
               THEN PushAudio(audio_frames, user_speaking, frame.chunk)
               ELSE audio_frames
        /\ chunks_received' =
               IF frame.type = "InputAudioRawFrame"
               THEN chunks_received + 1 ELSE chunks_received
        /\ unanswered' =
               CASE frame.type = "InterruptFrame" -> FALSE
                 [] emitted = InterruptFrame -> TRUE
                 [] OTHER -> unanswered
        /\ utterances' = UtterancesAfter(utterances, frame, user_speaking, path,
                                         audio_frames')
        /\ collector_pc' = "idle"
        /\ last' = [proc |-> "collector", frame |-> frame, emitted |-> emitted,
                    path |-> path,
                    truncate_point |-> IF path = "Partial" THEN truncate_point ELSE 0,
                    directives |-> Len(msgs1) - Len(messages),
                    appended |-> Len(msgs2) - Len(messages),
                    submitted |-> IF submits THEN 1 ELSE 0,
                    forwarded |-> frame.type # "TranscriptionFrame",
                    raised |-> FALSE,
                    context |-> IF submits THEN msgs2 ELSE <<>>,
                    system_message |-> IF submits THEN conversation_system_message
                                       ELSE ""]
        /\ UNCHANGED <<config, fixup_call, emitterVars, joined, ttsVars, transcript, backgroundVars>>

\* UserAudioCollector.process_frame, up to the await asyncio.sleep of the
\* behaviour modifier (line 191) when talk-out-of-turn fires, whole otherwise
CollectorProcessFrame(cfg, frame, r, emotion, r_listen, ignore, truncate_point) ==
    /\ collector_pc = "idle"
    /\ LET emitted == BehaviorEmits(cfg, frame, r, emotion)
       IN  IF emitted = TalkOutOfTurnFrame
           THEN /\ collector_pc' = "sleeping"
                /\ UNCHANGED <<config, fixup_call, emitterVars, audio_frames, user_speaking, chunks_received,
                               messages, submissions, pending, replies_due, joined,
                               unanswered, ttsVars, transcript, current_emotion,
                               utterances, backgroundVars, last>>
           ELSE CollectorFinish(cfg, frame, emitted, r_listen, ignore, truncate_point)

\* the draws of lines 310-328 that decide a UserStoppedSpeakingFrame, as
\* <<random.randint(1, 100), random.random() < 0.5, truncate_point>>: a draw
\* the code does not make on the path taken is held at FALSE or 1
ListenDraws(frames) ==
    {d \in RandInt(config.listening * 10) \X BOOLEAN \X TruncatePoints(frames) :
        /\ ListenPath(config, d[1], d[2]) = "Full" => (~d[2] /\ d[3] = 1)
        /\ ListenPath(config, d[1], d[2]) = "Ignore" => d[3] = 1}

\* the sleep of line 191 is over: the TalkOutOfTurnFrame is pushed and the
\* handler of the UserStoppedSpeakingFrame goes on
SleepElapsed ==
    /\ collector_pc = "sleeping"
    /\ \E d \in ListenDraws(audio_frames) :
          CollectorFinish(config, UserStoppedSpeakingFrame, TalkOutOfTurnFrame,
                          d[1], d[2], d[3])

\* a frame with the draws its handling makes
CollectorReceives(frame) ==
    IF frame.type = "UserStoppedSpeakingFrame"
    THEN \E r \in RandInt(config.talk_out_of_turn_probability) :
            IF BehaviorEmits(config, frame, r, "none") = TalkOutOfTurnFrame
            THEN CollectorProcessFrame(config, frame, r, "none", 1, FALSE, 1)
            ELSE \E d \in ListenDraws(audio_frames) :
                    CollectorProcessFrame(config, frame, r, "none", d[1], d[2], d[3])
    ELSE IF frame.type = "LLMDemoTranscriptionFrame"
    THEN \E r \in RandInt(config.emotional_reaction_probability),
            emotion \in CandidateEmotions(config.emotionality) :
            CollectorProcessFrame(config, frame, r, emotion, 1, FALSE, 1)
    ELSE IF frame.type = "UserStartedSpeakingFrame"
    THEN \E r \in RandInt(config.interrupt_probability) :
            CollectorProcessFrame(config, frame, r, "none", 1, FALSE, 1)
    ELSE CollectorProcessFrame(config, frame, 1, "none", 1, FALSE, 1)

\* the frames transport.input() delivers: the VAD's boundary events in
\* alternation, audio chunks, and frames the collector does not interpret
TransportFramesOf(lens) ==
    {TranscriptionFrame, MetricsFrame}
    \cup (IF user_speaking THEN {UserStoppedSpeakingFrame} ELSE {UserStartedSpeakingFrame})
    \cup (IF chunks_received < MaxChunks
          THEN {InputAudioRawFrame(Chunk(n, chunks_received + 1)) : n \in lens}
          ELSE {})

TransportFrames == TransportFramesOf(AudioLens)

TransportFrame == \E frame \in TransportFrames : CollectorReceives(frame)

(***************************************************************************)
(* InputTranscriptionFrameEmitter.  A text is a string, read character by  *)
(* character.                                                              *)
(***************************************************************************)
\* the characters str.strip() removes, as far as the texts of the model hold them
Whitespace == {" ", "\n", "\t"}

\* with a defect: only the leading whitespace is removed
strip_Leading(text) ==
    LET starts == {i \in 1 .. Len(text) + 1 :
                      \A j \in 1 .. i - 1 : SubSeq(text, j, j) \in Whitespace}
        first == CHOOSE i \in starts : \A k \in starts : k <= i
    IN  SubSeq(text, first, Len(text))

\* str.lstrip() and str.rstrip(): one whitespace character off the end at a time
RECURSIVE lstrip(_)
lstrip(text) ==
    IF Len(text) > 0 /\ SubSeq(text, 1, 1) \in Whitespace
    THEN lstrip(SubSeq(text, 2, Len(text)))
    ELSE text

RECURSIVE rstrip(_)
rstrip(text) ==
    IF Len(text) > 0 /\ SubSeq(text, Len(text), Len(text)) \in Whitespace
    THEN rstrip(SubSeq(text, 1, Len(text) - 1))
    ELSE text

\* self._aggregation.strip()
strip(text) == rstrip(lstrip(text))

\* InputTranscriptionFrameEmitter.process_frame
EmitterProcessFrame(frame) ==
    /\ CASE frame.type = "TextFrame" ->
               /\ Len(text_frames) < MaxTextFrames
               /\ aggregation' = aggregation \o frame.text
               /\ text_frames' = Append(text_frames, frame.text)
               /\ last' = [NoLast EXCEPT !.proc = "emitter", !.frame = frame]
         [] frame.type = "LLMFullResponseEndFrame" ->
               /\ aggregation' = ""
               /\ text_frames' = <<>>
               /\ last' = [NoLast EXCEPT !.proc = "emitter", !.frame = frame,
                              !.emitted = LLMDemoTranscriptionFrame(strip(aggregation))]
         [] OTHER ->
               /\ UNCHANGED <<aggregation, text_frames>>
               /\ last' = [NoLast EXCEPT !.proc = "emitter", !.frame = frame,
                              !.forwarded = TRUE]
    /\ UNCHANGED <<config, fixup_call, collectorVars, messages, submissions, pending,
                   replies_due, joined, unanswered, ttsVars, transcript, current_emotion,
                   backgroundVars>>

(***************************************************************************)
(* TranscriptionContextFixup.                                              *)
(***************************************************************************)
\* is_user_audio_message: "yes", "no", or "raise" for a dict, which has no
\* attribute parts
is_user_audio_message(message) ==
    IF message.repr = "dict" THEN "raise"
    ELSE IF message.role = "user" /\ message.inline_data THEN "yes" ELSE "no"

\* with a defect: the text is set and the audio reference is left in place
SwapTurn_KeepsAudio(message, text) == [message EXCEPT !.text = text]

\* audio_part.inline_data = None; audio_part.text = self._transcript
SwapTurn(message, text) ==
    [message EXCEPT !.inline_data = FALSE, !.audio = <<>>, !.text = text]

\* with a defect: the scan goes back to the most recent audio turn, however
\* many turns follow it
swap_user_audio_AnyTurn(msgs, text) ==
    LET audio == {i \in 1 .. Len(msgs) : is_user_audio_message(msgs[i]) = "yes"}
        i == CHOOSE j \in audio : \A k \in audio : k <= j
    IN  IF text = "" \/ audio = {} THEN [messages |-> msgs, raised |-> FALSE]
        ELSE [messages |-> [msgs EXCEPT ![i] = SwapTurn(msgs[i], text)],
              raised |-> FALSE]

\* with a defect: only the last turn is inspected
swap_user_audio_LastOnly(msgs, text) ==
    LET n == Len(msgs)
    IN  IF text = "" THEN [messages |-> msgs, raised |-> FALSE]
        ELSE IF n < 1 \/ is_user_audio_message(msgs[n]) = "raise"
        THEN [messages |-> msgs, raised |-> TRUE]
        ELSE IF is_user_audio_message(msgs[n]) = "yes"
        THEN [messages |-> [msgs EXCEPT ![n] = SwapTurn(msgs[n], text)],
              raised |-> FALSE]
        ELSE [messages |-> msgs, raised |-> FALSE]

\* swap_user_audio on the context msgs with self._transcript = text: the
\* context afterwards, and whether an exception left the method
swap_user_audio(msgs, text) ==
    LET n == Len(msgs)
        keep == [messages |-> msgs, raised |-> FALSE]
        fail == [messages |-> msgs, raised |-> TRUE]
        swap(i) == [messages |-> [msgs EXCEPT ![i] = SwapTurn(msgs[i], text)],
                    raised |-> FALSE]
    IN  IF text = "" THEN keep
        ELSE IF n < 2 THEN fail                          \* messages[-2]: IndexError
        ELSE IF is_user_audio_message(msgs[n - 1]) = "raise" THEN fail
        ELSE IF is_user_audio_message(msgs[n - 1]) = "yes" THEN swap(n - 1)
        ELSE IF is_user_audio_message(msgs[n]) = "raise" THEN fail
        ELSE IF is_user_audio_message(msgs[n]) = "yes" THEN swap(n)
        ELSE keep

\* with a defect: the scan reads the turns the context had when
\* process_frame was entered, before its first await
ScannedTurns_AtEntry(entry_len, msgs) == entry_len

\* self.context.messages[-2] and [-1] are read when swap_user_audio runs:
\* the scan sees every turn the context holds then
ScannedTurns(entry_len, msgs) == Len(msgs)

\* TranscriptionContextFixup.process_frame after its first await: lines
\* 534-540, which hold no await before the push
FixupProcessFrame(frame) ==
    LET n == ScannedTurns(fixup_call.entry_len, messages)
        scanned == SubSeq(messages, 1, n)
        swapped == IF frame.type = "LLMDemoTranscriptionFrame"
                   THEN swap_user_audio(scanned, frame.text)
                   ELSE [messages |-> scanned, raised |-> FALSE]
    IN  /\ messages' = swapped.messages \o SubSeq(messages, n + 1, Len(messages))
        /\ transcript' = IF swapped.raised THEN frame.text ELSE ""
        /\ last' = [NoLast EXCEPT !.proc = "fixup", !.frame = frame,
                                  !.forwarded = ~swapped.raised,
                                  !.raised = swapped.raised]

(***************************************************************************)
(* The rest of the pipeline of RealisticHumanAgent.run, as far as it       *)
(* touches the shared context.                                             *)
(***************************************************************************)
\* on_first_participant_joined: the context is submitted as it stands
on_first_participant_joined ==
    /\ ~joined
    /\ joined' = TRUE
    /\ submissions' = submissions + 1
    /\ replies_due' = replies_due + 1
    /\ last' = [NoLast EXCEPT !.proc = "joined", !.submitted = 1,
                              !.context = messages,
                              !.system_message = conversation_system_message]
    /\ UNCHANGED <<config, fixup_call, emitterVars, collectorVars, messages, pending, unanswered, ttsVars,
                   transcript, current_emotion, backgroundVars>>

\* what the transcriber may answer for the audio turn at position pos
HeardText(pos) == "heard turn " \o ToString(pos)
TranscriptTexts(pos) == {"", "EMPTY", HeardText(pos)}

\* the transcription branch answers the oldest submitted audio turn; the
\* LLMDemoTranscriptionFrame passes the modulator, the TTS and the assistant
\* aggregator unchanged and reaches the fixup
TranscriptArrives ==
    /\ pending # <<>>
    /\ \E text \in TranscriptTexts(Head(pending)) :
           FixupProcessFrame(LLMDemoTranscriptionFrame(text))
    /\ pending' = Tail(pending)
    /\ UNCHANGED <<config, fixup_call, emitterVars, collectorVars, submissions, replies_due, joined,
                   unanswered, ttsVars, current_emotion, backgroundVars>>

\* context_aggregator.assistant() appends the conversation model's reply,
\* in a context of fewer than limit turns
AssistantAppends(limit) ==
    /\ replies_due > 0
    /\ Len(messages) < limit
    /\ replies_due' = replies_due - 1
    /\ messages' = Append(messages, ContentText("assistant", "reply"))
    /\ last' = [NoLast EXCEPT !.proc = "assistant", !.appended = 1]
    /\ UNCHANGED <<config, fixup_call, emitterVars, collectorVars, submissions, pending, joined, unanswered,
                   ttsVars, transcript, current_emotion, backgroundVars>>

AssistantResponds == AssistantAppends(MaxTurns)

(***************************************************************************)
(* The pipeline as RealisticHumanAgent.run wires it.                       *)
(***************************************************************************)
\* tts_service._settings when the modulator is constructed: every multiplier
\* at 1.0, or a voice set up otherwise
NeutralSettings == [volume |-> 100, speed |-> 100, pitch |-> 100]
Baselines == {NeutralSettings, [volume |-> 80, speed |-> 90, pitch |-> 105]}

InitWith(cfgs, contexts, baselines) ==
    /\ config \in cfgs
    /\ audio_frames = <<>>
    /\ user_speaking = FALSE
    /\ collector_pc = "idle"
    /\ chunks_received = 0
    /\ messages \in contexts
    /\ submissions = 0
    /\ pending = <<>>
    /\ replies_due = 0
    /\ joined = FALSE
    /\ unanswered = FALSE
    /\ default_settings \in baselines
    /\ tts_settings = default_settings
    /\ timers = <<>>
    /\ tts_written = NoWrite
    /\ transcript = ""
    /\ current_emotion = "neutral"
    /\ aggregation = ""
    /\ text_frames = <<>>
    /\ now = 0
    /\ session = "running"
    /\ fixup_call = NoCall
    /\ last = NoLast

Init ==
    /\ InitWith(Configs, {<<initial_message>>}, {NeutralSettings})
    /\ utterances = NoUtterances
    /\ proactive_speech = NotStarted

\* the transport and the collector: what reaches the context and is submitted
Next ==
    \/ TransportFrame
    \/ SleepElapsed

Spec == Init /\ [][Next]_vars

\* the collector together with the stages behind it, for the default configuration
InitPipeline ==
    /\ InitWith({DEFAULT_CONFIG}, {<<initial_message>>}, {NeutralSettings})
    /\ utterances = NoUtterances
    /\ proactive_speech = NotStarted

NextPipeline ==
    \/ TransportFrame
    \/ SleepElapsed
    \/ on_first_participant_joined
    \/ TranscriptArrives
    \/ AssistantResponds

SpecPipeline == InitPipeline /\ [][NextPipeline]_vars

(***************************************************************************)
(* The collector on its own (SpecCollector): process_frame is handed any   *)
(* frame, the behaviour events among them, under the default               *)
(* configuration.                                                          *)
(***************************************************************************)
\* the labels an EmotionalReactionFrame may carry: the nine named emotions and
\* one that emotion_prompts does not know
EmotionLabels == BaseEmotions \cup StrongEmotions \cup {"bored"}

BehaviorEvents ==
    {InterruptFrame, TalkOutOfTurnFrame}
    \cup {EmotionalReactionFrame(emotion) : emotion \in EmotionLabels}

\* one chunk size is enough here
UnitAudioLens == {12800}

CollectorFrames ==
    TransportFramesOf(UnitAudioLens) \cup BehaviorEvents
    \cup {LLMDemoTranscriptionFrame("EMPTY")}

CollectorFrame == \E frame \in CollectorFrames : CollectorReceives(frame)

InitCollector ==
    /\ InitWith({DEFAULT_CONFIG}, {<<initial_message>>}, {NeutralSettings})
    /\ utterances = NoUtterances
    /\ proactive_speech = NotStarted

NextCollector ==
    \/ CollectorFrame
    \/ SleepElapsed

SpecCollector == InitCollector /\ [][NextCollector]_vars

(***************************************************************************)
(* The collector with the chunks of every utterance followed               *)
(* (SpecUtterances): the transport's frames under the default              *)
(* configuration, where all three listening paths occur.                   *)
(***************************************************************************)
UtteranceFrame ==
    \E frame \in TransportFramesOf(UnitAudioLens) : CollectorReceives(frame)

InitUtterances ==
    /\ InitWith({DEFAULT_CONFIG}, {<<initial_message>>}, {NeutralSettings})
    /\ utterances = TrackedUtterances
    /\ proactive_speech = NotStarted

NextUtterances ==
    \/ UtteranceFrame
    \/ SleepElapsed

SpecUtterances == InitUtterances /\ [][NextUtterances]_vars

(***************************************************************************)
(* The collector's buffer with every chunk received followed (SpecBuffer): *)
(* speech boundaries and chunks of 0.05 s and 0.1 s, three of the longer   *)
(* ones being more than the 0.2 s window holds.                            *)
(***************************************************************************)
BufferAudioLens == {12800, 25600}

BufferFrame ==
    \E frame \in TransportFramesOf(BufferAudioLens) \ {TranscriptionFrame, MetricsFrame} :
        CollectorReceives(frame)

InitBuffer ==
    /\ InitWith({DEFAULT_CONFIG}, {<<initial_message>>}, {NeutralSettings})
    /\ utterances = TrackedUtterances
    /\ proactive_speech = NotStarted

NextBuffer ==
    \/ BufferFrame
    \/ SleepElapsed

SpecBuffer == InitBuffer /\ [][NextBuffer]_vars

\* the frames of the transport that the collector interprets
SessionTransportFrames ==
    TransportFramesOf(UnitAudioLens) \ {TranscriptionFrame, MetricsFrame}

(***************************************************************************)
(* The behaviour modifier's emotional reactions (SpecReactions): the       *)
(* collector is handed transcripts beside the speech boundaries and the    *)
(* audio, for the values of the emotionality trait on both sides of the    *)
(* 0.7 threshold and at both ends of its range.                            *)
(***************************************************************************)
EmotionalityConfigs ==
    { [DEFAULT_CONFIG EXCEPT !.emotionality = e] : e \in {1, 7, 8, 9, 10} }

ReactionFrames == SessionTransportFrames \cup {LLMDemoTranscriptionFrame("EMPTY")}

ReactionFrame == \E frame \in ReactionFrames : CollectorReceives(frame)

InitReactions ==
    /\ InitWith(EmotionalityConfigs, {<<initial_message>>}, {NeutralSettings})
    /\ utterances = NoUtterances
    /\ proactive_speech = NotStarted

NextReactions ==
    \/ ReactionFrame
    \/ SleepElapsed

SpecReactions == InitReactions /\ [][NextReactions]_vars

(***************************************************************************)
(* VolumeModulator (SpecModulator), with the two function calls of run     *)
(* that write the same settings.                                           *)
(***************************************************************************)
\* with a defect: settings = self.tts_service._settings.copy()
ApplyEmotion_FromCurrent(emotion, defaults, current) ==
    CASE emotion = "angry" ->
             [current EXCEPT !.volume = 150, !.speed = 120, !.pitch = 110]
      [] emotion \in {"excited", "overjoyed"} ->
             [current EXCEPT !.speed = 130, !.pitch = 120]
      [] emotion = "frustrated" -> [current EXCEPT !.speed = 110, !.pitch = 95]
      [] emotion = "disappointed" -> [current EXCEPT !.speed = 85, !.pitch = 90]
      [] emotion = "surprised" -> [current EXCEPT !.pitch = 120]
      [] OTHER -> current

\* lines 363-388: settings = self.default_settings.copy(), the emotion's
\* assignments, then self.tts_service._settings.update(settings): every key
\* of settings replaces the current value, the other keys of current stay
ApplyEmotion(emotion, defaults, current) ==
    LET settings ==
            CASE emotion = "angry" ->
                     [defaults EXCEPT !.volume = 150, !.speed = 120, !.pitch = 110]
              [] emotion \in {"excited", "overjoyed"} ->
                     [defaults EXCEPT !.speed = 130, !.pitch = 120]
              [] emotion = "frustrated" -> [defaults EXCEPT !.speed = 110, !.pitch = 95]
              [] emotion = "disappointed" -> [defaults EXCEPT !.speed = 85, !.pitch = 90]
              [] emotion = "surprised" -> [defaults EXCEPT !.pitch = 120]
              [] OTHER -> defaults
    IN  [k \in DOMAIN current |->
            IF k \in DOMAIN settings THEN settings[k] ELSE current[k]]

\* with a defect: a new task replaces the ones created before
ArmTimer_Supersedes(ts, t) == <<t>>

\* asyncio.create_task(self._reset_settings_after_delay(3.0)) at time t: one
\* more task, beside the ones created before
ArmTimer(ts, t) == Append(ts, t)

\* with a defect: the reset leaves the settings as they are
RestoredSettings_Keeps(defaults, current) == current

\* self.tts_service._settings = self.default_settings.copy()
RestoredSettings(defaults, current) == defaults

\* VolumeModulator.process_frame
ModulatorProcessFrame(frame) ==
    /\ IF frame.type = "EmotionalReactionFrame"
       THEN /\ Len(timers) < MaxTimers
            /\ tts_settings' = ApplyEmotion(frame.emotion, default_settings, tts_settings)
            /\ timers' = ArmTimer(timers, now)
            /\ tts_written' = [by |-> "apply", applied_at |-> now,
                                over_set_speech |-> tts_written.by = "set_speech"]
       ELSE UNCHANGED <<tts_settings, timers, tts_written>>
    /\ last' = [NoLast EXCEPT !.proc = "modulator", !.frame = frame, !.forwarded = TRUE]
    /\ UNCHANGED <<config, fixup_call, emitterVars, collectorVars, messages, submissions, pending, replies_due,
                   joined, unanswered, default_settings, transcript, current_emotion,
                   backgroundVars>>

\* _reset_settings_after_delay past its sleep: the task created first is the
\* first to get there, every task sleeping the same 3.0 s
ResetSettingsAfterDelay ==
    /\ timers # <<>>
    /\ timers' = Tail(timers)
    /\ tts_settings' = RestoredSettings(default_settings, tts_settings)
    /\ tts_written' = [tts_written EXCEPT !.by = "timer", !.over_set_speech = FALSE]
    /\ last' = [NoLast EXCEPT !.proc = "timer"]
    /\ UNCHANGED <<config, fixup_call, emitterVars, collectorVars, messages, submissions, pending, replies_due,
                   joined, unanswered, default_settings, transcript, current_emotion,
                   backgroundVars>>

\* the asyncio.sleep(3.0) of the task created first is over
TimerDue == timers # <<>> /\ Head(timers) + ResetDelay <= now

\* the reset at the time it is due
TimerExpires == TimerDue /\ ResetSettingsAfterDelay

\* set_speech_speed and set_speech_volume: tts._settings[key] = value
SpeechValues == {50, 140}

SetSpeech(key, value) ==
    /\ tts_settings' = [tts_settings EXCEPT ![key] = value]
    /\ tts_written' = [tts_written EXCEPT !.by = "set_speech",
                                          !.over_set_speech = FALSE]
    /\ last' = [NoLast EXCEPT !.proc = key]
    /\ UNCHANGED <<config, fixup_call, emitterVars, collectorVars, messages, submissions, pending, replies_due,
                   joined, unanswered, default_settings, timers, transcript,
                   current_emotion, backgroundVars>>

set_speech_speed == \E value \in SpeechValues : SetSpeech("speed", value)
set_speech_volume == \E value \in SpeechValues : SetSpeech("volume", value)

(***************************************************************************)
(* random_proactive_speech, the task RealisticHumanAgent.run starts beside *)
(* the pipeline.  The context it pushes is a fresh GoogleLLMContext: the   *)
(* shared context is not touched.                                          *)
(***************************************************************************)
\* OpenAILLMContextFrame(context=proactive_context)
ProactiveContextFrame ==
    Frame("OpenAILLMContextFrame", "none",
          "The conversation has had a brief pause. Proactively start a new topic or ask a question to keep the conversation going.",
          NoChunk)

\* with a defect: the new-topic turn is appended to the shared context and
\* the shared context is pushed
ProactiveContext_Shared ==
    Append(messages, ContentText("user", ProactiveContextFrame.text))

\* GoogleLLMContext([system_message]): a context of its own, holding the
\* new-topic turn and nothing else
ProactiveContext == <<ContentText("user", ProactiveContextFrame.text)>>

\* with a defect: random.uniform(0, max_interval)
ProactiveSleeps_FromZero(cfg) == 0 .. cfg.proactive_speech_max_interval

\* random.uniform(min_interval, max_interval), in whole seconds: both ends of
\* the range and its middle
ProactiveSleeps(cfg) ==
    {cfg.proactive_speech_min_interval,
     (cfg.proactive_speech_min_interval + cfg.proactive_speech_max_interval) \div 2,
     cfg.proactive_speech_max_interval}

\* random.random() in hundredths where it is compared with
\* probability * talkativeness: both ends of [0, 1) and both sides of the threshold
ProactiveDraws(cfg) ==
    LET threshold == (cfg.proactive_speech_probability * cfg.talkativeness) \div 10
    IN  {0, 99} \cup ({threshold, threshold + 1} \cap (0 .. 99))

\* random.random() <= probability * talkativeness, talkativeness = trait / 10
ProactiveTriggers(cfg, u) ==
    u * 10 <= cfg.proactive_speech_probability * cfg.talkativeness

\* with a defect: the task returns after its first evaluation
Sleeping_Returns(t, d, turns) ==
    [pc |-> "done", slept_from |-> t, wake_at |-> t + d, turns |-> turns]

\* the task in a sleep of d seconds begun at time t, after so many turns
Sleeping(t, d, turns) ==
    [pc |-> "sleeping", slept_from |-> t, wake_at |-> t + d, turns |-> turns]

\* asyncio.create_task(random_proactive_speech()): the task runs up to its
\* first asyncio.sleep
StartProactiveSpeech ==
    /\ proactive_speech.pc = "none"
    /\ \E d \in ProactiveSleeps(config) : proactive_speech' = Sleeping(now, d, 0)
    /\ last' = [NoLast EXCEPT !.proc = "start"]
    /\ UNCHANGED <<config, fixup_call, emitterVars, collectorVars, messages, submissions, pending, replies_due,
                   joined, unanswered, ttsVars, transcript, current_emotion, now,
                   session>>

\* one pass of the loop from the end of a sleep to the next sleep: the draw
\* u, the context frame pushed if it triggers (the conversation model will
\* answer it), and the next sleep of d seconds
random_proactive_speech ==
    /\ proactive_speech.pc = "sleeping"
    /\ proactive_speech.turns < MaxProactive
    /\ \E u \in ProactiveDraws(config), d \in ProactiveSleeps(config) :
           LET emits == ProactiveTriggers(config, u)
           IN  /\ proactive_speech' =
                      Sleeping(now, d, IF emits THEN proactive_speech.turns + 1
                                       ELSE proactive_speech.turns)
               /\ replies_due' = IF emits THEN replies_due + 1 ELSE replies_due
               /\ last' = [NoLast EXCEPT !.proc = "proactive",
                              !.emitted = IF emits THEN ProactiveContextFrame ELSE NoFrame,
                              !.context = IF emits THEN ProactiveContext ELSE <<>>,
                              !.system_message =
                                  IF emits THEN conversation_system_message ELSE ""]
    /\ UNCHANGED <<config, fixup_call, emitterVars, collectorVars, messages, submissions, pending, joined,
                   unanswered, ttsVars, transcript, current_emotion, now, session>>

\* the task's asyncio.sleep is over
ProactiveDue == proactive_speech.pc = "sleeping" /\ proactive_speech.wake_at <= now

\* the loop's pass at the time its sleep ends
ProactiveSpeechWakes == ProactiveDue /\ random_proactive_speech

(***************************************************************************)
(* The clock of the timed specifications: a second passes when no sleep    *)
(* that is over is still waiting to be served.                             *)
(***************************************************************************)
Tick ==
    /\ now < MaxClock
    /\ ~TimerDue
    /\ ~ProactiveDue
    /\ now' = now + 1
    /\ last' = [NoLast EXCEPT !.proc = "clock"]
    /\ UNCHANGED <<config, fixup_call, emitterVars, collectorVars, messages, submissions, pending, replies_due,
                   joined, unanswered, ttsVars, transcript, current_emotion,
                   proactive_speech, session>>

(***************************************************************************)
(* The modulator on its own (SpecModulator), with the clock.               *)
(***************************************************************************)
ModulatorFrames ==
    {EmotionalReactionFrame(emotion) : emotion \in EmotionLabels}
    \cup {LLMDemoTranscriptionFrame("EMPTY"), MetricsFrame}

ModulatorFrame == \E frame \in ModulatorFrames : ModulatorProcessFrame(frame)

InitModulator ==
    /\ InitWith({DEFAULT_CONFIG}, {<<initial_message>>}, Baselines)
    /\ utterances = NoUtterances
    /\ proactive_speech = NotStarted

NextModulator ==
    \/ ModulatorFrame
    \/ TimerExpires
    \/ set_speech_speed
    \/ set_speech_volume
    \/ Tick

SpecModulator == InitModulator /\ [][NextModulator]_vars

(***************************************************************************)
(* The proactive speech task on its own (SpecProactive), with the clock.   *)
(***************************************************************************)
\* the intervals and the talkativeness of the model: short intervals, equal
\* and unequal, and a talkativeness of 0 beside the default
ProactiveConfigs ==
    { [DEFAULT_CONFIG EXCEPT !.proactive_speech_min_interval = i[1],
                             !.proactive_speech_max_interval = i[2],
                             !.talkativeness = t] :
        i \in {<<1, 1>>, <<1, 3>>, <<2, 3>>}, t \in {0, 7} }

InitProactive ==
    /\ InitWith(ProactiveConfigs, {<<initial_message>>}, {NeutralSettings})
    /\ utterances = NoUtterances
    /\ proactive_speech = NotStarted

NextProactive ==
    \/ StartProactiveSpeech
    \/ ProactiveSpeechWakes
    \/ Tick

SpecProactive == InitProactive /\ [][NextProactive]_vars

(***************************************************************************)
(* TranscriptionContextFixup on its own (SpecFixup): it is constructed     *)
(* with any context of at most MaxCtx turns and handed transcripts.        *)
(***************************************************************************)
\* the kinds of turn a context holds: user text, user audio, an assistant
\* reply, and a directive as the emotional modifier appends it
TurnKinds ==
    {ContentText("user", "hello"),
     Turn("user", "Content", TRUE, <<Chunk(12800, 1)>>, ""),
     ContentText("assistant", "reply"),
     interrupt_message}

Contexts == UNION {[1 .. n -> TurnKinds] : n \in 0 .. MaxCtx}

\* the emitter's texts: nothing heard, the sentinel, a transcription
FixupFrames ==
    {LLMDemoTranscriptionFrame(text) : text \in {"", "EMPTY", "hello there"}}
    \cup {MetricsFrame}

FixupFrame ==
    /\ \E frame \in FixupFrames : FixupProcessFrame(frame)
    /\ UNCHANGED <<config, fixup_call, emitterVars, collectorVars, submissions, pending, replies_due, joined,
                   unanswered, ttsVars, current_emotion, backgroundVars>>

InitFixup ==
    /\ InitWith({DEFAULT_CONFIG}, Contexts, {NeutralSettings})
    /\ utterances = NoUtterances
    /\ proactive_speech = NotStarted

NextFixup == FixupFrame

SpecFixup == InitFixup /\ [][NextFixup]_vars

(***************************************************************************)
(* InputTranscriptionFrameEmitter on its own (SpecEmitter): the text       *)
(* frames of the transcriber, with and without whitespace at their ends,   *)
(* the end-of-response marker, and frames of other types.                  *)
(***************************************************************************)
EmitterTexts == {"", " ", "hi", " a", "b\n", "EMPTY"}

EmitterFrames ==
    {TextFrame(text) : text \in EmitterTexts}
    \cup {LLMFullResponseEndFrame, MetricsFrame, UserStoppedSpeakingFrame}

EmitterFrame == \E frame \in EmitterFrames : EmitterProcessFrame(frame)

InitEmitter ==
    /\ InitWith({DEFAULT_CONFIG}, {<<initial_message>>}, {NeutralSettings})
    /\ utterances = NoUtterances
    /\ proactive_speech = NotStarted

NextEmitter == EmitterFrame

SpecEmitter == InitEmitter /\ [][NextEmitter]_vars

(***************************************************************************)
(* The session as a whole (SpecSession): the main chain and, beside it,    *)
(* the sleeping talk-out-of-turn delay, the reversion timers and the       *)
(* proactive speech task, which run has started before the pipeline.       *)
(* Time is left out: a sleep may end at any step, which covers every       *)
(* timing.  The collector and the modulator are handed the behaviour       *)
(* events directly, which covers every wiring of the modifiers.            *)
(***************************************************************************)
\* the behaviour event of the delayed emission
SessionEvents == {TalkOutOfTurnFrame}

\* a frame of the transport, or a behaviour event, at the collector
SessionFrame ==
    /\ session = "running"
    /\ \E frame \in SessionTransportFrames \cup SessionEvents :
           CollectorReceives(frame)

\* an emotional reaction at the modulator
SessionReaction == ModulatorProcessFrame(EmotionalReactionFrame("angry"))

\* the default configuration with the proactive sleeps all of one length,
\* the length of a sleep being of no account where time is left out
SessionConfig == [DEFAULT_CONFIG EXCEPT !.proactive_speech_max_interval = 30]

\* asyncio.create_task(random_proactive_speech()) comes before runner.run(task):
\* the task is in its first sleep when the first frame arrives
InitSession ==
    /\ InitWith({SessionConfig}, {<<initial_message>>}, {NeutralSettings})
    /\ utterances = NoUtterances
    /\ proactive_speech \in {Sleeping(0, d, 0) : d \in ProactiveSleeps(SessionConfig)}

NextSession ==
    \/ SessionFrame
    \/ SleepElapsed
    \/ TranscriptArrives
    \/ AssistantResponds
    \/ SessionReaction
    \/ ResetSettingsAfterDelay
    \/ random_proactive_speech

SpecSession == InitSession /\ [][NextSession]_vars

(***************************************************************************)
(* The proactive speech task beside the main chain, with the scheduling of *)
(* asyncio (SpecScheduler): a task whose sleep is over is run, so that the *)
(* loop's pass is taken if it stays possible.                              *)
(***************************************************************************)
NextScheduler ==
    \/ SessionFrame
    \/ SleepElapsed
    \/ random_proactive_speech

SpecScheduler ==
    InitSession /\ [][NextScheduler]_vars /\ WF_vars(random_proactive_speech)

(***************************************************************************)
(* The session into teardown (SpecTeardown).  RealisticHumanAgent.run      *)
(* keeps no handle of the tasks it and the modulator create and cancels    *)
(* none of them, so that the reversion timers and the proactive speech     *)
(* task go on when teardown has begun; only the transport stops            *)
(* delivering.                                                             *)
(***************************************************************************)
\* the pipeline has been told to end: runner.run(task) is on its way out
EndSession ==
    /\ session = "running"
    /\ session' = "ending"
    /\ last' = [NoLast EXCEPT !.proc = "teardown"]
    /\ UNCHANGED <<config, fixup_call, emitterVars, collectorVars, messages, submissions, pending, replies_due,
                   joined, unanswered, ttsVars, transcript, current_emotion, now,
                   proactive_speech>>

NextTeardown ==
    \/ NextSession
    \/ EndSession

SpecTeardown == InitSession /\ [][NextTeardown]_vars

(***************************************************************************)
(* Claims about the transport and the collector (Spec).                    *)
(***************************************************************************)
\* the state right after the collector has handled a frame of the given type
CollectorHandled(type) ==
    /\ last.proc = "collector"
    /\ last.frame.type = type
    /\ collector_pc = "idle"

\* the sum of the retained chunks' own durations, over AudioDivisor * SampleRate
RECURSIVE RetainedDurationNum(_)
RetainedDurationNum(frames) ==
    IF frames = <<>> THEN 0
    ELSE FrameDurationNum(Head(frames)) + RetainedDurationNum(Tail(frames))

\* C1: whenever the user is not speaking and a chunk has just been pushed, the
\* retained chunks' durations sum to at most the 0.2 s window.
C1_RetainedWithinWindow ==
    (CollectorHandled("InputAudioRawFrame") /\ ~user_speaking) =>
        RetainedDurationNum(audio_frames) * StartSecsDen
            <= StartSecsNum * AudioDivisor * SampleRate

\* the user turn add_audio_frames_message appends for the given frames
AudioTurn(frames) == Turn("user", "Content", TRUE, frames, "")

\* C2: each UserStoppedSpeaking event takes exactly one of three paths: Full
\* (one user turn with the whole buffer, one submission), Partial (one user
\* turn with the truncated prefix, one submission) or Ignore (no turn, no
\* submission).
C2_ExactlyOnePath ==
    [][ (CollectorHandled("UserStoppedSpeakingFrame"))' =>
          \/ /\ last'.path = "Full"
             /\ messages' = Append(messages, AudioTurn(audio_frames))
             /\ submissions' = submissions + 1
          \/ /\ last'.path = "Partial"
             /\ last'.truncate_point >= 1
             /\ messages' = Append(messages,
                    AudioTurn(SubSeq(audio_frames, 1,
                                     Min(last'.truncate_point, Len(audio_frames)))))
             /\ submissions' = submissions + 1
          \/ /\ last'.path = "Ignore"
             /\ messages' = messages
             /\ submissions' = submissions ]_vars

\* a Partial path that forwarded a proper prefix of a buffer of several chunks
C2_Witness ==
    /\ CollectorHandled("UserStoppedSpeakingFrame")
    /\ last.path = "Partial"
    /\ Len(audio_frames) >= 2
    /\ Len(messages[Len(messages)].audio) < Len(audio_frames)

\* C6: with interrupt_probability = 100, every UserStartedSpeaking frame has
\* had its interrupt directive appended by the time of the next submission.
C6_InterruptBeforeSubmission ==
    (config.interrupt_probability = RandIntMax /\ last.proc = "collector"
        /\ last.submitted = 1) => ~unanswered

\* C7: with listening = 0, a UserStoppedSpeaking event never forwards the whole
\* buffer: what it forwards is a strictly shorter prefix.  (Stated for the
\* buffers that hold at least one chunk, where the whole buffer is audio.)
C7_NeverFullyForwarded ==
    (config.listening = 0 /\ CollectorHandled("UserStoppedSpeakingFrame")
        /\ last.submitted = 1 /\ Len(audio_frames) >= 1) =>
        Len(messages[Len(messages)].audio) < Len(audio_frames)

IsUserAudio(turn) == turn.role = "user" /\ turn.inline_data

\* the turn with its audio reference replaced by the text
Rewritten(turn, text) == [turn EXCEPT !.inline_data = FALSE, !.audio = <<>>, !.text = text]

\* the step is the fixup handling a finalized transcript
FixupHandlesTranscript ==
    /\ last'.proc = "fixup"
    /\ last'.frame.type = "LLMDemoTranscriptionFrame"

\* the context ends in [..., user audio turn, X] with X no user audio turn
EndsInAudioThenOther(msgs) ==
    /\ Len(msgs) >= 2
    /\ IsUserAudio(msgs[Len(msgs) - 1])
    /\ ~IsUserAudio(msgs[Len(msgs)])

\* the last turn is a user audio turn and the turn before it, if any, is not
EndsInAudio(msgs) ==
    /\ Len(msgs) >= 1
    /\ IsUserAudio(msgs[Len(msgs)])
    /\ Len(msgs) >= 2 => ~IsUserAudio(msgs[Len(msgs) - 1])

\* neither of the last two turns is a user audio turn
NoAudioInLastTwo(msgs) ==
    \A i \in 1 .. Len(msgs) : i >= Len(msgs) - 1 => ~IsUserAudio(msgs[i])

\* C3 as stated: for a context ending in [..., user audio turn, X], every
\* finalized transcript rewrites the second-to-last turn and leaves X alone.
C3_RewritesSecondToLast ==
    [][ (FixupHandlesTranscript /\ EndsInAudioThenOther(messages)) =>
          messages' = [messages EXCEPT ![Len(messages) - 1] =
                          Rewritten(messages[Len(messages) - 1], last'.frame.text)]
      ]_vars

\* C3 as amended: the same for every transcript that is not the empty string.
C3_RewritesSecondToLastNonEmpty ==
    [][ (FixupHandlesTranscript /\ EndsInAudioThenOther(messages)
            /\ last'.frame.text # "") =>
          messages' = [messages EXCEPT ![Len(messages) - 1] =
                          Rewritten(messages[Len(messages) - 1], last'.frame.text)]
      ]_vars

\* a context that ended in [audio turn, directive] after its audio turn was rewritten
C3_Witness ==
    /\ last.proc = "fixup"
    /\ Len(messages) >= 2
    /\ messages[Len(messages)] = interrupt_message
    /\ messages[Len(messages) - 1] = ContentText("user", "hello there")

\* C4: for a context whose last turn is a user audio turn (and the turn before
\* it, of whatever kind, is not), a finalized transcript rewrites the last
\* turn, at every context length >= 1.  (Stated for the transcripts that are
\* not the empty string.)
C4_RewritesLast ==
    [][ (FixupHandlesTranscript /\ EndsInAudio(messages) /\ last'.frame.text # "") =>
          messages' = [messages EXCEPT ![Len(messages)] =
                          Rewritten(messages[Len(messages)], last'.frame.text)]
      ]_vars

\* C5: if neither of the last two turns is a user audio turn, a finalized
\* transcript leaves the context unchanged and its frame is forwarded.
C5_DroppedAndForwarded ==
    [][ (FixupHandlesTranscript /\ NoAudioInLastTwo(messages)) =>
          (messages' = messages /\ last'.forwarded) ]_vars

(***************************************************************************)
(* Claims about the context mutator (SpecCollector).                       *)
(***************************************************************************)
NamedEmotions ==
    {"angry", "excited", "frustrated", "curious", "amused", "skeptical",
     "overjoyed", "disappointed", "surprised"}

\* the step is the collector finishing the handling of a frame
CollectorHandles == last'.proc = "collector" /\ collector_pc' = "idle"

\* C9: a behavior event (interrupt, talk-out-of-turn, emotional reaction with
\* any label) appends exactly one system-role directive, the fallback text for
\* a label that is not one of the nine, and changes no other turn; any other
\* frame appends no directive.
C9_OneDirectivePerEvent ==
    [][ CollectorHandles =>
          LET frame == last'.frame
              added == messages'[Len(messages')]
          IN  IF frame \in BehaviorEvents
              THEN /\ Len(messages') = Len(messages) + 1
                   /\ SubSeq(messages', 1, Len(messages)) = messages
                   /\ added.role = "system"
                   /\ last'.directives = 1
                   /\ (frame.type = "EmotionalReactionFrame"
                         /\ frame.emotion \notin NamedEmotions)
                        => added.text = "Respond naturally to the user."
                   /\ (frame.type = "EmotionalReactionFrame"
                         /\ frame.emotion \in NamedEmotions)
                        => /\ added.text = emotion_prompts(frame.emotion)
                           /\ added.text # "Respond naturally to the user."
                   /\ frame.type = "InterruptFrame" => added = interrupt_message
                   /\ frame.type = "TalkOutOfTurnFrame" => added = talk_message
              ELSE /\ last'.directives = 0
                   /\ SubSeq(messages', 1, Len(messages)) = messages
                   /\ Len(messages') = Len(messages) + last'.submitted
                   /\ Len(messages') > Len(messages) => added.role = "user"
      ]_vars

\* the fallback directive appended for the label that is not one of the nine
C9_Witness ==
    /\ last.proc = "collector"
    /\ last.frame = EmotionalReactionFrame("bored")
    /\ last.directives = 1
    /\ messages[Len(messages)] = DictMessage("system", "Respond naturally to the user.")

(***************************************************************************)
(* Claims about the speech-parameter modulator (SpecModulator).            *)
(***************************************************************************)
\* the fixed mapping of the claim over the baseline b
MappedSettings(emotion, b) ==
    CASE emotion = "angry" -> [volume |-> 150, speed |-> 120, pitch |-> 110]
      [] emotion = "excited" -> [volume |-> b.volume, speed |-> 130, pitch |-> 120]
      [] emotion = "overjoyed" -> [volume |-> b.volume, speed |-> 130, pitch |-> 120]
      [] emotion = "frustrated" -> [volume |-> b.volume, speed |-> 110, pitch |-> 95]
      [] emotion = "disappointed" -> [volume |-> b.volume, speed |-> 85, pitch |-> 90]
      [] emotion = "surprised" -> [volume |-> b.volume, speed |-> b.speed, pitch |-> 120]
      [] OTHER -> b

\* C10: apply(emotion) installs exactly the fixed mapping over the baseline;
\* what the mapping does not name takes the baseline value, not the value a
\* previous emotion (or anything else) left in the active settings.
C10_ApplyInstallsMapping ==
    [][ (last'.proc = "modulator" /\ last'.frame.type = "EmotionalReactionFrame") =>
          tts_settings' = MappedSettings(last'.frame.emotion, default_settings)
      ]_vars

\* surprised applied while an earlier override's timer is still pending: the
\* pitch is the mapping's, volume and speed are the baseline's
C10_Witness ==
    /\ last.proc = "modulator"
    /\ last.frame = EmotionalReactionFrame("surprised")
    /\ Len(timers) = 2
    /\ default_settings # NeutralSettings
    /\ tts_settings = [default_settings EXCEPT !.pitch = 120]

(***************************************************************************)
(* Claims about the collector's handling of speech boundaries and audio    *)
(* (Spec, SpecUtterances).                                                 *)
(***************************************************************************)
\* C15: the talk-out-of-turn delay is scheduled, not awaited inline: while the
\* delay is pending, the UserStoppedSpeaking frame that started it has been
\* handled (the speaking flag is down, the listen decision is made, the frame
\* is forwarded).
C15_DelayNotAwaitedInline ==
    collector_pc = "sleeping" =>
        /\ ~user_speaking
        /\ last.proc = "collector"
        /\ last.frame = UserStoppedSpeakingFrame
        /\ last.forwarded

\* C16: right after a UserStoppedSpeaking event has committed a user turn on
\* the Full path, the audio buffer is empty.
C16_EmptyAfterFullCommit ==
    (CollectorHandled("UserStoppedSpeakingFrame") /\ last.path = "Full") =>
        audio_frames = <<>>

\* the chunks of the user turns of the context
TurnChunks(msgs) ==
    {msgs[i].audio[j].seq : <<i, j>> \in
        {<<i, j>> \in (1 .. Len(msgs)) \X (1 .. MaxChunks) : j <= Len(msgs[i].audio)}}

\* C17: an utterance that took the Ignore path leaves no trace: its
\* UserStoppedSpeaking event appends no turn and submits nothing, and none of
\* its chunks is part of a user turn, then or later.
C17_IgnoreLeavesNoTrace ==
    /\ (CollectorHandled("UserStoppedSpeakingFrame") /\ last.path = "Ignore") =>
           (last.appended = 0 /\ last.submitted = 0)
    /\ TurnChunks(messages) \cap utterances.ignored = {}

\* C18: pushing a chunk with an empty sample buffer leaves the audio buffer as
\* it was, whether or not the user is speaking.
C18_EmptyChunkIsNoOp ==
    [][ (CollectorHandles /\ last'.frame.type = "InputAudioRawFrame"
            /\ last'.frame.chunk.audio = 0) =>
          audio_frames' = audio_frames ]_vars

\* C20: when a UserStoppedSpeaking frame both triggers a directive (talk out
\* of turn fires) and commits a user turn, the directive sits in the context
\* right before that user turn when the context is submitted.
C20_DirectiveBeforeUserTurn ==
    (CollectorHandled("UserStoppedSpeakingFrame") /\ last.emitted = TalkOutOfTurnFrame
        /\ last.submitted = 1) =>
        /\ Len(messages) >= 2
        /\ messages[Len(messages) - 1] = talk_message
        /\ IsUserAudio(messages[Len(messages)])

(***************************************************************************)
(* Claims about the reversion timers (SpecModulator).                      *)
(***************************************************************************)
\* C11 as stated: once 3.0 s have passed since the last apply (and the reset
\* that is due then has run), the active settings are the baseline, and they
\* stay the baseline until the next apply.
C11_BaselineAfterDelay ==
    (tts_written.applied_at >= 0 /\ now >= tts_written.applied_at + ResetDelay
        /\ ~TimerDue) =>
        /\ timers = <<>>
        /\ tts_settings = default_settings

\* C11 as amended: the same until the next apply or the next call of
\* set_speech_speed or set_speech_volume.
C11_BaselineAfterDelayUntilWritten ==
    (tts_written.applied_at >= 0 /\ now >= tts_written.applied_at + ResetDelay
        /\ ~TimerDue /\ tts_written.by # "set_speech") =>
        /\ timers = <<>>
        /\ tts_settings = default_settings

\* the reset of an override, 3 s after the apply, to a baseline that is not
\* the neutral one; a second later the settings are still the baseline
C11_Witness ==
    /\ tts_written.applied_at >= 0
    /\ now = tts_written.applied_at + ResetDelay + 1
    /\ tts_written.by = "timer"
    /\ default_settings # NeutralSettings
    /\ tts_settings = default_settings

\* the step is an apply of the modulator
ApplyStep == last'.proc = "modulator" /\ last'.frame.type = "EmotionalReactionFrame"

\* C12: every apply arms a timer of its own beside the pending ones; a timer
\* leaves only by firing, exactly 3.0 s after its apply, and its firing
\* restores the baseline whatever was applied since and leaves the timers
\* armed later pending; no pending timer is ever past its time.
C12_TimersIndependent ==
    [][ /\ ApplyStep => timers' = Append(timers, now)
        /\ (timers' # timers /\ ~ApplyStep) =>
              /\ last'.proc = "timer"
              /\ timers # <<>>
              /\ now = Head(timers) + ResetDelay
              /\ timers' = Tail(timers)
              /\ tts_settings' = default_settings
        /\ \A i \in 1 .. Len(timers') : now' <= timers'[i] + ResetDelay
      ]_vars

\* the first timer has just fired and restored the baseline while the timer
\* of a later apply, not yet 3 s old, is still pending
C12_Witness ==
    /\ last.proc = "timer"
    /\ Len(timers) = 1
    /\ tts_written.applied_at = timers[1]
    /\ now < timers[1] + ResetDelay
    /\ now > timers[1]
    /\ tts_settings = default_settings

(***************************************************************************)
(* Claims about the proactive speech task (SpecProactive).                 *)
(***************************************************************************)
\* C13: every sleep of the task lasts between the min and the max interval, a
\* wake-up comes no earlier than the min interval after the start or the
\* previous wake-up, and a proactive turn is emitted at a wake-up only.
C13_SleepsWithinInterval ==
    [][ /\ (proactive_speech' # proactive_speech /\ proactive_speech.pc = "sleeping") =>
              /\ now >= proactive_speech.slept_from + config.proactive_speech_min_interval
              /\ now <= proactive_speech.slept_from + config.proactive_speech_max_interval
        /\ proactive_speech'.turns # proactive_speech.turns =>
              /\ proactive_speech.pc = "sleeping"
              /\ last'.emitted = ProactiveContextFrame
        /\ proactive_speech'.pc = "sleeping" =>
              (proactive_speech'.wake_at - proactive_speech'.slept_from)
                  \in config.proactive_speech_min_interval ..
                      config.proactive_speech_max_interval
      ]_vars

\* two proactive turns, each emitted exactly the min interval of 2 s after
\* the start or the previous wake-up
C13_Witness ==
    /\ last.proc = "proactive"
    /\ last.emitted = ProactiveContextFrame
    /\ proactive_speech.turns = 2
    /\ config.proactive_speech_min_interval = 2
    /\ now = 4

(***************************************************************************)
(* Claims about the session as a whole (SpecSession, SpecTeardown).        *)
(***************************************************************************)
\* C14: once teardown has begun, the proactive speech task emits no further
\* turn, no reversion timer changes the speech settings, and no delayed
\* talk-out-of-turn directive is appended to the context.
C14_QuietAfterTeardown ==
    [][ session = "ending" =>
          /\ proactive_speech'.turns = proactive_speech.turns
          /\ last'.proc = "timer" => tts_settings' = tts_settings
          /\ ~(last'.proc = "collector" /\ last'.emitted = TalkOutOfTurnFrame
                 /\ last'.directives > 0)
      ]_vars

FixupRewrites == FixupHandlesTranscript /\ messages' # messages

\* C21: on a finalized transcript the turn that is rewritten is the most
\* recent user audio turn of the context: a user audio turn with no user audio
\* turn after it.
C21_RewritesMostRecentAudio ==
    [][ FixupRewrites =>
          \E i \in 1 .. Len(messages) :
              /\ IsUserAudio(messages[i])
              /\ \A j \in (i + 1) .. Len(messages) : ~IsUserAudio(messages[j])
              /\ messages' = [messages EXCEPT ![i] =
                                 Rewritten(messages[i], last'.frame.text)]
      ]_vars

\* C24 for the transcript fixup: no exception leaves process_frame, and the
\* frame that was being handled is passed on.
C24_FixupFailsOpen ==
    last.proc = "fixup" => (~last.raised /\ last.forwarded)

\* C28: a successful reconciliation changes exactly one turn, which keeps its
\* index and its user role, loses its audio reference and takes the transcript
\* as its text; the length of the context and every other turn stay.
C28_ExactlyOneTurnInPlace ==
    [][ FixupRewrites =>
          /\ Len(messages') = Len(messages)
          /\ \E i \in 1 .. Len(messages) :
                /\ messages[i].role = "user" /\ messages[i].inline_data
                /\ messages'[i].role = "user"
                /\ messages'[i].repr = messages[i].repr
                /\ ~messages'[i].inline_data
                /\ messages'[i].audio = <<>>
                /\ messages'[i].text = last'.frame.text
                /\ \A j \in 1 .. Len(messages) : j # i => messages'[j] = messages[j]
      ]_vars

\* the audio turn in the middle of three turns has become the transcript, the
\* turns around it are as they were
C28_Witness ==
    /\ last.proc = "fixup"
    /\ last.frame = LLMDemoTranscriptionFrame("hello there")
    /\ messages = <<ContentText("assistant", "reply"),
                    ContentText("user", "hello there"),
                    ContentText("assistant", "reply")>>

(***************************************************************************)
(* Claims about the emotional reactions (SpecCollector).                   *)
(***************************************************************************)
\* C25: after an emotional-reaction event the emotion state holds the event's
\* label; it returns to neutral at the next context submission and not
\* before, and the reversion timer of the speech parameters does not touch it.
C25_EmotionHeldUntilSubmission ==
    [][ /\ (CollectorHandles /\ last'.frame.type = "EmotionalReactionFrame") =>
              current_emotion' = last'.frame.emotion
        /\ submissions' # submissions => current_emotion' = "neutral"
        /\ (submissions' = submissions
              /\ ~(CollectorHandles /\ last'.frame.type = "EmotionalReactionFrame")) =>
              current_emotion' = current_emotion
      ]_vars

\* C27: an emotional-reaction event the decision engine emits reaches the
\* context mutator, which appends the directive of its emotion, and the
\* speech-parameter modulator, which installs the override of its emotion and
\* arms a reversion timer.
C27_ReactionReachesBoth ==
    [][ (CollectorHandles /\ last'.emitted.type = "EmotionalReactionFrame") =>
          /\ messages' = Append(messages,
                 DictMessage("system", emotion_prompts(last'.emitted.emotion)))
          /\ tts_settings' = MappedSettings(last'.emitted.emotion, default_settings)
          /\ Len(timers') = Len(timers) + 1
      ]_vars

(***************************************************************************)
(* Claims about the behaviour modifier's choice of emotion (SpecReactions). *)
(***************************************************************************)
\* C22: an emotional-reaction event carries one of angry, overjoyed,
\* disappointed, surprised only when the emotionality trait is at least 8; for
\* a trait of 7 or less its label is one of excited, frustrated, curious,
\* amused, skeptical.
C22_StrongOnlyWhenEmotional ==
    (last.proc = "collector" /\ last.emitted.type = "EmotionalReactionFrame") =>
        /\ last.emitted.emotion \in {"angry", "overjoyed", "disappointed", "surprised"}
              => config.emotionality >= 8
        /\ config.emotionality <= 7 =>
              last.emitted.emotion \in
                  {"excited", "frustrated", "curious", "amused", "skeptical"}
        /\ last.emitted.emotion \in NamedEmotions

\* a high-intensity label emitted at the lowest trait that allows it
C22_Witness ==
    /\ last.proc = "collector"
    /\ last.frame.type = "LLMDemoTranscriptionFrame"
    /\ last.emitted = EmotionalReactionFrame("surprised")
    /\ config.emotionality = 8

(***************************************************************************)
(* Claims about the audio buffer (SpecBuffer).                             *)
(***************************************************************************)
\* C26: at a UserStoppedSpeaking event the buffer is what the preceding
\* UserStartedSpeaking event found in it, followed by every chunk pushed
\* since, in arrival order: nothing was evicted in between.
C26_NoEvictionWhileSpeaking ==
    [][ (CollectorHandles /\ last'.frame.type = "UserStoppedSpeakingFrame") =>
          /\ audio_frames = utterances.retained \o utterances.pushed
          /\ audio_frames' = audio_frames
      ]_vars

\* an utterance of two chunks of 0.1 s after a retained chunk of 0.1 s: 0.3 s
\* in the buffer at the stop event, more than the window holds
C26_Witness ==
    /\ CollectorHandled("UserStoppedSpeakingFrame")
    /\ Len(utterances.retained) = 1
    /\ Len(utterances.pushed) = 2
    /\ Len(audio_frames) = 3
    /\ \A i \in 1 .. 3 : audio_frames[i].audio = 25600

\* C30: the buffer is always a contiguous suffix of the sequence of the
\* chunks received so far, in arrival order.
C30_BufferIsSuffixOfReceived ==
    LET n == Len(utterances.received)
        k == Len(audio_frames)
    IN  /\ n = chunks_received
        /\ k <= n
        /\ audio_frames = SubSeq(utterances.received, n - k + 1, n)

\* the third chunk has pushed the oldest one out: the buffer is the last two
\* of the three chunks received
C30_Witness ==
    /\ CollectorHandled("InputAudioRawFrame")
    /\ ~user_speaking
    /\ Len(utterances.received) = 3
    /\ audio_frames = Tail(utterances.received)

(***************************************************************************)
(* Claims about the transcript emitter (SpecEmitter).                      *)
(***************************************************************************)
\* the texts joined in the order given
RECURSIVE Concatenation(_)
Concatenation(texts) ==
    IF texts = <<>> THEN "" ELSE Head(texts) \o Concatenation(Tail(texts))

\* every character of the text is whitespace
AllWhitespace(text) ==
    \A i \in 1 .. Len(text) : SubSeq(text, i, i) \in {" ", "\n", "\t"}

\* trimmed is the text without the whitespace at its two ends
IsTrimmed(trimmed, text) ==
    \E a, b \in 0 .. Len(text) :
        /\ a + b <= Len(text)
        /\ trimmed = SubSeq(text, a + 1, Len(text) - b)
        /\ AllWhitespace(SubSeq(text, 1, a))
        /\ AllWhitespace(SubSeq(text, Len(text) - b + 1, Len(text)))
        /\ trimmed # "" =>
              /\ ~AllWhitespace(SubSeq(trimmed, 1, 1))
              /\ ~AllWhitespace(SubSeq(trimmed, Len(trimmed), Len(trimmed)))

\* C29: at every end-of-response marker the emitter emits one transcription
\* frame whose text is the trimmed concatenation of the text frames received
\* since the previous marker, and starts the next accumulation empty; it
\* forwards neither the text frames nor the marker, and forwards every other
\* frame unchanged, emitting nothing and keeping what it has accumulated.
C29_OneTrimmedTranscriptPerMarker ==
    [][ last'.proc = "emitter" =>
          CASE last'.frame.type = "LLMFullResponseEndFrame" ->
                 /\ last'.emitted.type = "LLMDemoTranscriptionFrame"
                 /\ IsTrimmed(last'.emitted.text, Concatenation(text_frames))
                 /\ ~last'.forwarded
                 /\ aggregation' = ""
            [] last'.frame.type = "TextFrame" ->
                 /\ last'.emitted = NoFrame
                 /\ ~last'.forwarded
                 /\ aggregation' = Concatenation(text_frames')
            [] OTHER ->
                 /\ last'.emitted = NoFrame
                 /\ last'.forwarded
                 /\ aggregation' = aggregation
      ]_vars

\* the marker after " a", " " and "b\n": the transcript is "a b", with the
\* whitespace inside kept and the whitespace at both ends gone
C29_Witness ==
    /\ last.proc = "emitter"
    /\ last.frame = LLMFullResponseEndFrame
    /\ last.emitted = LLMDemoTranscriptionFrame("a b")
    /\ aggregation = ""

(***************************************************************************)
(* Claims about the proactive speech task beside the main chain            *)
(* (SpecScheduler).                                                        *)
(***************************************************************************)
\* C23: after every evaluation, emitting or not, the task is sleeping again;
\* no step of the main chain changes the task; and the task never stops
\* waking: it wakes again and again, up to the turns the model lets it emit.
C23_SchedulerKeepsCycling ==
    /\ [][ /\ proactive_speech' # proactive_speech =>
                 /\ last'.proc = "proactive"
                 /\ proactive_speech.pc = "sleeping"
           /\ last'.proc = "proactive" => proactive_speech'.pc = "sleeping"
           /\ last'.proc = "collector" => proactive_speech' = proactive_speech
         ]_vars
    /\ \/ []<><<random_proactive_speech>>_vars
       \/ <>[](proactive_speech.turns = MaxProactive)

\* the task is sleeping after a wake-up that emitted and one that did not,
\* with the collector in the middle of an utterance
C23_Witness ==
    /\ last.proc = "proactive"
    /\ last.emitted = NoFrame
    /\ proactive_speech.pc = "sleeping"
    /\ proactive_speech.turns = 1
    /\ user_speaking
    /\ Len(audio_frames) >= 1

(***************************************************************************)
(* Further claims about the proactive speech task (SpecProactive).         *)
(***************************************************************************)
\* C31: with a talkativeness of 0 or a proactive_speech_probability of 0, no
\* wake-up of the task emits a proactive turn, whatever the draw.
C31_NoTurnAtProbabilityZero ==
    [][ (config.talkativeness = 0 \/ config.proactive_speech_probability = 0) =>
          /\ proactive_speech'.turns = proactive_speech.turns
          /\ last'.emitted # ProactiveContextFrame
      ]_vars

(***************************************************************************)
(* Further claims about the collector (Spec).                              *)
(***************************************************************************)
\* C32: every frame the collector receives is forwarded downstream, the
\* transcription frames among them.
C32_EveryFrameForwarded ==
    (last.proc = "collector" /\ collector_pc = "idle") => last.forwarded

(***************************************************************************)
(* Further claims about the session (SpecSession).                         *)
(***************************************************************************)
\* C36: a proactive emission leaves the shared context as it was and pushes
\* a context of its own that holds one user turn, the new-topic text, and
\* none of the conversation's turns.
C36_ProactiveContextIsFresh ==
    [][ (last'.proc = "proactive" /\ last'.emitted # NoFrame) =>
          /\ messages' = messages
          /\ Len(last'.context) = 1
          /\ last'.context[1].role = "user"
          /\ last'.context[1].repr = "Content"
          /\ ~last'.context[1].inline_data
          /\ last'.context[1].text = ProactiveContextFrame.text
          /\ \A i \in 1 .. Len(messages) : last'.context[1] # messages[i]
      ]_vars

\* a proactive turn was pushed while the shared context held an utterance
C36_Witness ==
    /\ last.proc = "proactive"
    /\ last.emitted = ProactiveContextFrame
    /\ Len(messages) >= 2
    /\ Len(last.context) = 1

(***************************************************************************)
(* Further claims about the modulator (SpecModulator).                     *)
(***************************************************************************)
\* C37: a speed or volume written by set_speech_speed or set_speech_volume
\* does not survive an emotion: the apply that follows installs the value
\* derived from the baseline, the reset installs the baseline, and no step
\* changes the baseline.
C37_SetSpeechDoesNotSurvive ==
    [][ /\ (ApplyStep /\ tts_written.by = "set_speech") =>
              /\ tts_settings'.speed = MappedSettings(last'.frame.emotion, default_settings).speed
              /\ tts_settings'.volume = MappedSettings(last'.frame.emotion, default_settings).volume
        /\ last'.proc = "timer" => tts_settings' = default_settings
        /\ default_settings' = default_settings
      ]_vars

\* an emotion without a mapping was applied over a speed of 140 set by the
\* function call, and the speed is the baseline's again
C37_Witness ==
    /\ last.proc = "modulator"
    /\ last.frame.type = "EmotionalReactionFrame"
    /\ last.frame.emotion \notin NamedEmotions
    /\ tts_written.over_set_speech
    /\ tts_settings.speed = default_settings.speed
    /\ default_settings.speed # 140

(***************************************************************************)
(* RealisticHumanAgent.__init__ (SpecConfig): the configuration the agent  *)
(* keeps, computed from the dictionary it is given.  Here config holds the *)
(* argument until the constructor has run and self.config afterwards; a    *)
(* dictionary is a function from its keys.                                 *)
(***************************************************************************)
\* DEFAULT_CONFIG as the dictionary of dictionaries it is, the two nested
\* dictionaries the constructor merges
DefaultDicts ==
    [personality |->
         [patience |-> 5, talkativeness |-> 7, interruption |-> 4, listening |-> 6,
          agreeableness |-> 5, emotionality |-> 6],
     behaviors |->
         [interrupt_probability |-> 25, ignore_probability |-> 15,
          talk_out_of_turn_probability |-> 20, emotional_reaction_probability |-> 30,
          proactive_speech_min_interval |-> 30, proactive_speech_max_interval |-> 90,
          proactive_speech_probability |-> 50]]

\* the traits formatted_config reads
FormattedTraits ==
    {"patience", "talkativeness", "interruption", "listening", "agreeableness",
     "emotionality"}

\* d.update(other): every key of other gets other's value, whole
DictUpdate(d, other) ==
    [k \in DOMAIN d \cup DOMAIN other |->
        IF k \in DOMAIN other THEN other[k] ELSE d[k]]

\* lines 561-564 and 567-570: for key, value in given[section].items():
\* if key in cfg[section]: cfg[section][key] = value
MergeSection(cfg, given, section) ==
    IF section \in DOMAIN given
    THEN [cfg EXCEPT ![section] =
             [k \in DOMAIN cfg[section] |->
                 IF k \in DOMAIN given[section] THEN given[section][k]
                 ELSE cfg[section][k]]]
    ELSE cfg

\* __init__ up to formatted_config: the configuration kept, and whether the
\* reads of lines 575-580 raise KeyError
AgentConfig(given) ==
    LET copied == DictUpdate(DefaultDicts, given)
        merged == MergeSection(MergeSection(copied, given, "personality"),
                               given, "behaviors")
    IN  [config |-> merged,
         raised |-> ~(FormattedTraits \subseteq DOMAIN merged.personality)]

\* the dictionaries given: with or without each section, a section with any
\* of its keys; a trait is given as 9 and a behaviors key as 40, values no
\* default has
GivenConfigs ==
    LET trait_keys == SUBSET FormattedTraits
        behavior_keys ==
            SUBSET {"interrupt_probability", "ignore_probability",
                    "proactive_speech_probability"}
                \cup {DOMAIN DefaultDicts.behaviors}
        personalities == {[t \in ks |-> 9] : ks \in trait_keys}
        behaviors == {[b \in ks |-> 40] : ks \in behavior_keys}
    IN  {<<>>}
        \cup {[k \in {"personality"} |-> p] : p \in personalities}
        \cup {[k \in {"behaviors"} |-> b] : b \in behaviors}
        \cup {[k \in {"personality", "behaviors"} |->
                 IF k = "personality" THEN p ELSE b] :
                   p \in personalities, b \in behaviors}

RealisticHumanAgentInit ==
    /\ last.proc = "none"
    /\ config' = AgentConfig(config).config
    /\ last' = [NoLast EXCEPT !.proc = "__init__",
                              !.raised = AgentConfig(config).raised]
    /\ UNCHANGED <<fixup_call, emitterVars, collectorVars, messages, submissions,
                   pending, replies_due, joined, unanswered, ttsVars, transcript,
                   current_emotion, backgroundVars>>

InitConfig ==
    /\ InitWith(GivenConfigs, {<<initial_message>>}, {NeutralSettings})
    /\ utterances = NoUtterances
    /\ proactive_speech = NotStarted

SpecConfig == InitConfig /\ [][RealisticHumanAgentInit]_vars

\* the value the claim gives a key of a section: the given one, or the default
MergedValue(given, section, k) ==
    IF section \in DOMAIN given /\ k \in DOMAIN given[section]
    THEN given[section][k]
    ELSE DefaultDicts[section][k]

\* C33: the constructor merges a partial configuration with the defaults:
\* every trait and every behaviors key is in the configuration kept, with the
\* given value if it was given and the default otherwise.
C33_PartialConfigMerged ==
    [][ last'.proc = "__init__" =>
          /\ ~last'.raised
          /\ \A section \in DOMAIN DefaultDicts :
                 \A k \in DOMAIN DefaultDicts[section] :
                     /\ k \in DOMAIN config'[section]
                     /\ config'[section][k] = MergedValue(config, section, k)
      ]_vars

(***************************************************************************)
(* The writers of the shared context beside the fixup (SpecDialogue): the  *)
(* collector at the end of an utterance, the emotional modifier with a     *)
(* talk-out-of-turn directive, the assistant aggregator.  The fixup's      *)
(* process_frame is taken in the two steps its first await divides it in,  *)
(* so that the other writers run between them.                             *)
(***************************************************************************)
MaxDialogue == 4

\* lines 306-318 on the Full path with one chunk buffered: the audio turn is
\* appended and the context submitted to both models
UtteranceSubmitted ==
    /\ Len(messages) < MaxDialogue
    /\ messages' = add_audio_frames_message(messages, <<Chunk(12800, submissions + 1)>>)
    /\ submissions' = submissions + 1
    /\ pending' = Append(pending, Len(messages) + 1)
    /\ replies_due' = replies_due + 1
    /\ last' = [NoLast EXCEPT !.proc = "collector", !.frame = UserStoppedSpeakingFrame,
                              !.path = "Full", !.appended = 1, !.submitted = 1,
                              !.forwarded = TRUE, !.context = messages',
                              !.system_message = conversation_system_message]
    /\ UNCHANGED <<config, fixup_call, emitterVars, collectorVars, joined, unanswered,
                   ttsVars, transcript, current_emotion, backgroundVars>>

\* lines 249-258: the directive of a TalkOutOfTurnFrame is appended
DirectiveAppended ==
    /\ Len(messages) < MaxDialogue
    /\ messages' = EmotionalModifierAppends(messages, TalkOutOfTurnFrame)
    /\ last' = [NoLast EXCEPT !.proc = "collector", !.frame = TalkOutOfTurnFrame,
                              !.directives = 1, !.appended = 1, !.forwarded = TRUE]
    /\ UNCHANGED <<config, fixup_call, emitterVars, collectorVars, submissions, pending,
                   replies_due, joined, unanswered, ttsVars, transcript,
                   current_emotion, backgroundVars>>

\* process_frame is called with the transcript of the oldest submitted audio
\* turn and waits in await super().process_frame (line 532)
FixupEnters ==
    /\ fixup_call.pc = "idle"
    /\ pending # <<>>
    /\ \E text \in TranscriptTexts(Head(pending)) :
           fixup_call' = [pc |-> "awaiting",
                          frame |-> LLMDemoTranscriptionFrame(text),
                          entry_len |-> Len(messages)]
    /\ last' = [NoLast EXCEPT !.proc = "fixup_entered"]
    /\ UNCHANGED <<config, emitterVars, collectorVars, messages, submissions, pending,
                   replies_due, joined, unanswered, ttsVars, transcript,
                   current_emotion, backgroundVars>>

\* the await is over: lines 534-540
FixupResumes ==
    /\ fixup_call.pc = "awaiting"
    /\ FixupProcessFrame(fixup_call.frame)
    /\ fixup_call' = [fixup_call EXCEPT !.pc = "idle"]
    /\ pending' = Tail(pending)
    /\ UNCHANGED <<config, emitterVars, collectorVars, submissions, replies_due, joined,
                   unanswered, ttsVars, current_emotion, backgroundVars>>

InitDialogue ==
    /\ InitWith({DEFAULT_CONFIG}, {<<initial_message>>}, {NeutralSettings})
    /\ utterances = NoUtterances
    /\ proactive_speech = NotStarted

NextDialogue ==
    \/ UtteranceSubmitted
    \/ DirectiveAppended
    \/ AssistantAppends(MaxDialogue)
    \/ FixupEnters
    \/ FixupResumes

SpecDialogue == InitDialogue /\ [][NextDialogue]_vars

C35_TranscriptInItsOwnTurn ==
    [][ (last'.proc = "fixup" /\ messages' # messages) =>
          /\ pending # <<>>
          /\ messages'[Head(pending)] # messages[Head(pending)]
      ]_vars

\* C38: an audio turn with two or more turns after it is never rewritten and
\* never leaves its place.
C38_BuriedAudioStays ==
    [][ \A i \in 1 .. Len(messages) - 2 :
            IsUserAudio(messages[i]) =>
                /\ Len(messages') >= Len(messages)
                /\ messages'[i] = messages[i]
      ]_vars

\* a transcript arrived, and was written, while an audio turn lay three
\* turns back: that turn is still an audio reference
C38_Witness ==
    /\ last.proc = "fixup"
    /\ last.frame.text # ""
    /\ ~last.raised
    /\ Len(messages) = MaxDialogue
    /\ IsUserAudio(messages[2])

(***************************************************************************)
(* The collector under configurations that differ in                       *)
(* behaviors.ignore_probability only (SpecIgnore).                         *)
(***************************************************************************)
\* DEFAULT_CONFIG's 15 and another value
IgnoreProbabilities == {15, 60}

InitIgnore ==
    /\ InitWith({[DEFAULT_CONFIG EXCEPT !.ignore_probability = p] :
                    p \in IgnoreProbabilities},
                {<<initial_message>>}, {NeutralSettings})
    /\ utterances = NoUtterances
    /\ proactive_speech = NotStarted

\* the frames of the transport that the collector interprets
IgnoreFrame == \E frame \in SessionTransportFrames : CollectorReceives(frame)

NextIgnore ==
    \/ IgnoreFrame
    \/ SleepElapsed

SpecIgnore == InitIgnore /\ [][NextIgnore]_vars

\* the configuration of the other session: cfg with the other ignore_probability
OtherIgnore(cfg) ==
    [cfg EXCEPT !.ignore_probability =
        CHOOSE p \in IgnoreProbabilities : p # cfg.ignore_probability]

\* values of random.randint(1, 100) on both sides of every number the
\* configuration cfg holds for a decision, ignore_probability included
DrawValues(cfg) ==
    UNION {RandInt(p) : p \in {cfg.interrupt_probability,
                               cfg.talk_out_of_turn_probability,
                               cfg.emotional_reaction_probability,
                               cfg.listening * 10,
                               cfg.ignore_probability,
                               cfg.listening * 10 + cfg.ignore_probability}}

\* the draws the handling of a frame makes, as <<r, emotion, r_listen,
\* ignore, truncate_point>>
HandlingDraws(frame) ==
    IF frame.type = "UserStoppedSpeakingFrame"
    THEN RandInt(config.talk_out_of_turn_probability) \X {"none"}
             \X RandInt(config.listening * 10) \X BOOLEAN \X TruncatePoints(audio_frames)
    ELSE IF frame.type = "LLMDemoTranscriptionFrame"
    THEN RandInt(config.emotional_reaction_probability)
             \X CandidateEmotions(config.emotionality) \X {1} \X {FALSE} \X {1}
    ELSE IF frame.type = "UserStartedSpeakingFrame"
    THEN RandInt(config.interrupt_probability) \X {"none"} \X {1} \X {FALSE} \X {1}
    ELSE {<<1, "none", 1, FALSE, 1>>}

SharedContextFrame == Frame("OpenAILLMContextFrame", "none", "", NoChunk)

\* the frame the filter pushes for an audio turn: a context of its own
TranscriptionContextFrame ==
    Frame("OpenAILLMContextFrame", "none", "Transcribe this audio.", NoChunk)

\* frame.context
ContextOf(frame) ==
    IF frame = ProactiveContextFrame THEN ProactiveContext ELSE messages

\* lines 453-456: f"{msg.role}: {part.text}\n" for the text of each turn
RECURSIVE History(_)
History(msgs) ==
    IF msgs = <<>> THEN ""
    ELSE (IF Head(msgs).text # ""
          THEN Head(msgs).role \o ": " \o Head(msgs).text \o "\n"
          ELSE "")
         \o History(Tail(msgs))

\* InputTranscriptionContextFilter.process_frame: the frame pushed, and the
\* turns and the system message of its context if it is a context frame.
\* The text parts of the new turn (lines 457-465) are the history, if there
\* is any, and the transcription prompt.
FilterPushes(frame, context) ==
    LET n == Len(context)
        AssembledText(history) ==
            (IF history # ""
             THEN "Here is the conversation history so far." \o "\n" \o history
             ELSE "")
            \o "Transcribe this audio."
        original == [frame |-> frame,
                     context |-> IF frame.type = "OpenAILLMContextFrame"
                                 THEN context ELSE <<>>,
                     system_message |-> IF frame.type = "OpenAILLMContextFrame"
                                        THEN conversation_system_message ELSE ""]
    IN  IF frame.type # "OpenAILLMContextFrame" THEN original
        ELSE IF n = 0 THEN original                  \* messages[-1]: IndexError, caught
        ELSE IF context[n].repr = "dict" THEN original
        ELSE IF ~(context[n].role = "user" /\ context[n].inline_data) THEN original
        ELSE IF \E i \in 1 .. n - 2 : context[i].repr = "dict"
        THEN original                                \* msg.parts: AttributeError, caught
        ELSE [frame |-> TranscriptionContextFrame,
              context |-> <<Turn("user", "Content", TRUE, context[n].audio,
                                 AssembledText(History(SubSeq(context, 1, n - 2))))>>,
              system_message |-> transcriber_system_message]

FilterProcessFrame(frame) ==
    LET pushed == FilterPushes(frame, ContextOf(frame))
    IN  /\ last' = [NoLast EXCEPT !.proc = "filter", !.frame = frame,
                                  !.emitted = pushed.frame,
                                  !.forwarded = pushed.frame = frame,
                                  !.context = pushed.context,
                                  !.system_message = pushed.system_message]
        /\ UNCHANGED <<config, fixup_call, emitterVars, collectorVars, messages,
                       submissions, pending, replies_due, joined, unanswered, ttsVars,
                       transcript, current_emotion, backgroundVars>>

\* the filter is handed a system frame, a data frame, or a context frame
FilterFrame ==
    \E frame \in {MetricsFrame, TextFrame("hi"), LLMFullResponseEndFrame,
                  SharedContextFrame, ProactiveContextFrame} :
        FilterProcessFrame(frame)

InitFilter ==
    /\ InitWith({DEFAULT_CONFIG}, Contexts, {NeutralSettings})
    /\ utterances = NoUtterances
    /\ proactive_speech = NotStarted

SpecFilter == InitFilter /\ [][FilterFrame]_vars

\* the frame is a context frame whose last turn is a user audio turn
EndsInUserAudio(frame, context) ==
    /\ frame.type = "OpenAILLMContextFrame"
    /\ context # <<>>
    /\ context[Len(context)].repr = "Content"
    /\ IsUserAudio(context[Len(context)])

\* C40: the filter pushes one frame for every frame: a context of its own
\* with one user turn holding the audio, under the transcriber's system
\* message, if the frame is a context frame whose last turn is a user audio
\* turn, and the frame as it came otherwise; the shared context stays as it
\* was.
C40_OneFramePerFrame ==
    [][ last'.proc = "filter" =>
          /\ messages' = messages
          /\ last'.emitted # NoFrame
          /\ IF EndsInUserAudio(last'.frame, ContextOf(last'.frame))
             THEN /\ last'.emitted = TranscriptionContextFrame
                  /\ Len(last'.context) = 1
                  /\ IsUserAudio(last'.context[1])
                  /\ last'.context[1].audio = messages[Len(messages)].audio
                  /\ last'.system_message = transcriber_system_message
             ELSE /\ last'.emitted = last'.frame
                  /\ last'.forwarded
      ]_vars

====
